---- MODULE Spec2Model ----
(***************************************************************************)
(* A model of go-adsb: the Beast stream decoder and Frame (package beast), *)
(* Message validation (package adsb) and the CPR position decoders.        *)
(*                                                                         *)
(* Numbers of the CPR code are float64 in the source; here they are exact  *)
(* rationals [n |-> numerator, d |-> denominator > 0] in lowest terms.     *)
(* Table thresholds are decimals <<integer part, eight fraction digits>>.  *)
(***************************************************************************)
EXTENDS Integers, Sequences, FiniteSets, TLC

VARIABLES nl, cpr, dec, frm, msg

vars == <<nl, cpr, dec, frm, msg>>

(* The value of a variable group that a specification does not exercise. *)
Idle == [op |-> "idle"]

----------------------------------------------------------------------------
(* Exact rational arithmetic standing for the source's float64 values.    *)

Abs(a) == IF a < 0 THEN -a ELSE a

RECURSIVE GCD(_, _)
GCD(a, b) == IF b = 0 THEN a ELSE GCD(b, a % b)

Rat(n, d) ==
    LET g == GCD(Abs(n), d)
    IN  IF n = 0 THEN [n |-> 0, d |-> 1] ELSE [n |-> n \div g, d |-> d \div g]

RInt(k) == [n |-> k, d |-> 1]

RAdd(a, b) ==
    LET g == GCD(a.d, b.d)
        l == (a.d \div g) * b.d
    IN  Rat(a.n * (l \div a.d) + b.n * (l \div b.d), l)

RNeg(a) == [n |-> -a.n, d |-> a.d]

RSub(a, b) == RAdd(a, RNeg(b))

RMul(a, b) ==
    LET g1 == GCD(Abs(a.n), b.d)
        g2 == GCD(Abs(b.n), a.d)
    IN  Rat((a.n \div g1) * (b.n \div g2), (a.d \div g2) * (b.d \div g1))

(* a / b for b > 0 *)
RDiv(a, b) == RMul(a, [n |-> b.d, d |-> b.n])

(* a/b < c/d for a, c >= 0 and b, d > 0, by comparing integer parts and  *)
(* then the reciprocals of the remainders: no product is formed.          *)
RECURSIVE PosLt(_, _, _, _)
PosLt(a, b, c, d) ==
    LET q1 == a \div b
        q2 == c \div d
        r1 == a % b
        r2 == c % d
    IN  IF q1 # q2 THEN q1 < q2
        ELSE IF r2 = 0 THEN FALSE
        ELSE IF r1 = 0 THEN TRUE
        ELSE PosLt(d, r2, b, r1)

RLt(a, b) ==
    IF a.n < 0
    THEN IF b.n >= 0 THEN TRUE ELSE PosLt(-b.n, b.d, -a.n, a.d)
    ELSE IF b.n < 0 THEN FALSE ELSE PosLt(a.n, a.d, b.n, b.d)

RLe(a, b) == ~RLt(b, a)

RAbs(a) == [n |-> Abs(a.n), d |-> a.d]

(* math.Floor *)
RFloor(a) == a.n \div a.d

(* math.Round: half away from zero *)
RRound(a) ==
    IF a.n >= 0 THEN (2 * a.n + a.d) \div (2 * a.d)
    ELSE -((2 * (-a.n) + a.d) \div (2 * a.d))

----------------------------------------------------------------------------
(* cpr.go: the longitude zone table and its lookup.                        *)

nlTbl(i) ==
    CASE i = 59 -> <<10, 47047130>>
      [] i = 58 -> <<14, 82817437>>
      [] i = 57 -> <<18, 18626357>>
      [] i = 56 -> <<21, 2939493>>
      [] i = 55 -> <<23, 54504487>>
      [] i = 54 -> <<25, 82924707>>
      [] i = 53 -> <<27, 93898710>>
      [] i = 52 -> <<29, 91135686>>
      [] i = 51 -> <<31, 77209708>>
      [] i = 50 -> <<33, 53993436>>
      [] i = 49 -> <<35, 22899598>>
      [] i = 48 -> <<36, 85025108>>
      [] i = 47 -> <<38, 41241892>>
      [] i = 46 -> <<39, 92256684>>
      [] i = 45 -> <<41, 38651832>>
      [] i = 44 -> <<42, 80914012>>
      [] i = 43 -> <<44, 19454951>>
      [] i = 42 -> <<45, 54626723>>
      [] i = 41 -> <<46, 86733252>>
      [] i = 40 -> <<48, 16039128>>
      [] i = 39 -> <<49, 42776439>>
      [] i = 38 -> <<50, 67150166>>
      [] i = 37 -> <<51, 89342469>>
      [] i = 36 -> <<53, 9516153>>
      [] i = 35 -> <<54, 27817472>>
      [] i = 34 -> <<55, 44378444>>
      [] i = 33 -> <<56, 59318756>>
      [] i = 32 -> <<57, 72747354>>
      [] i = 31 -> <<58, 84763776>>
      [] i = 30 -> <<59, 95459277>>
      [] i = 29 -> <<61, 4917774>>
      [] i = 28 -> <<62, 13216659>>
      [] i = 27 -> <<63, 20427479>>
      [] i = 26 -> <<64, 26616523>>
      [] i = 25 -> <<65, 31845310>>
      [] i = 24 -> <<66, 36171008>>
      [] i = 23 -> <<67, 39646774>>
      [] i = 22 -> <<68, 42322022>>
      [] i = 21 -> <<69, 44242631>>
      [] i = 20 -> <<70, 45451075>>
      [] i = 19 -> <<71, 45986473>>
      [] i = 18 -> <<72, 45884545>>
      [] i = 17 -> <<73, 45177442>>
      [] i = 16 -> <<74, 43893416>>
      [] i = 15 -> <<75, 42056257>>
      [] i = 14 -> <<76, 39684391>>
      [] i = 13 -> <<77, 36789461>>
      [] i = 12 -> <<78, 33374083>>
      [] i = 11 -> <<79, 29428225>>
      [] i = 10 -> <<80, 24923213>>
      [] i = 9 -> <<81, 19801349>>
      [] i = 8 -> <<82, 13956981>>
      [] i = 7 -> <<83, 7199445>>
      [] i = 6 -> <<83, 99173563>>
      [] i = 5 -> <<84, 89166191>>
      [] i = 4 -> <<85, 75541621>>
      [] i = 3 -> <<86, 53536998>>
      [] i = 2 -> <<87, 0>>

(* x < nlTbl[i], x a non-negative rational: line 518's comparison.        *)
LtTbl(x, i) ==
    LET t == nlTbl(i)
        q == x.n \div x.d
        r == x.n % x.d
    IN  IF q # t[1] THEN q < t[1]
        ELSE PosLt(r, x.d, t[2], 100000000)

(* The loop of cprNL: i from 59 down to 2, the first i with x < nlTbl[i]. *)
RECURSIVE NLScan(_, _)
NLScan(x, i) ==
    IF i <= 1 THEN 1
    ELSE IF LtTbl(x, i) THEN i
    ELSE NLScan(x, i - 1)

(* cprNL with the scan begun one entry late, at 58. *)
cprNLFrom58(x) == NLScan(RAbs(x), 58)

cprNL(x) == NLScan(RAbs(x), 59)

----------------------------------------------------------------------------
(* cpr.go: global decoding of an even/odd pair of position reports.       *)

(* A nil pointer; NoErr is the nil error.  An error return carries the   *)
(* nil slice, which like the empty slice has no elements.                 *)
Nil == [nil |-> TRUE]

NoErr == [msg |-> "nil", arg |-> <<>>, wraps |-> "nil"]

(* newError(wraps, msg) and newErrorf(wraps, format, args...); the        *)
(* error's text is msg, with the args formatted into it, followed by ": " *)
(* and the wrapped error's text when one is wrapped.                      *)
newError(wraps, m) == [msg |-> m, arg |-> <<>>, wraps |-> wraps]

newErrorf(wraps, m, args) == [msg |-> m, arg |-> args, wraps |-> wraps]

(* mod(a, b) = a - b * floor(a / b), for b > 0 *)
mod(a, b) == RSub(a, RMul(b, RInt(RFloor(RDiv(a, b)))))

(* float64(c.Lat) / 131072 *)
Frac17(v) == Rat(v, 131072)

Zone(isAirBorne) == IF isAirBorne THEN 360 ELSE 90

(* coord[1] + delta wrapped as lines 376-381 do *)
WrapLon(cand) ==
    IF RLt(RInt(180), cand) THEN RSub(cand, RInt(360))
    ELSE IF RLt(cand, RInt(-180)) THEN RAdd(cand, RInt(360))
    ELSE cand

(* coord[0] + delta clamped as lines 404-410 do *)
ClampLat(cand) ==
    IF RLt(cand, RInt(-90)) THEN RInt(-90)
    ELSE IF RLt(RInt(90), cand) THEN RInt(90)
    ELSE cand

(* The selection loops of lines 385-393 and 415-422: the first candidate  *)
(* of the least distance to ref (a later one replaces it only when        *)
(* strictly nearer).  The longitude loop weighs every distance by the     *)
(* same factor |cos(referenceLat)|, which float64 never evaluates to 0,   *)
(* so that it orders the candidates as the plain distance does.           *)
RECURSIVE Closest(_, _, _, _)
Closest(cands, ref, i, best) ==
    IF i > Len(cands) THEN best
    ELSE IF RLt(RAbs(RSub(ref, cands[i])), RAbs(RSub(ref, best)))
         THEN Closest(cands, ref, i + 1, cands[i])
         ELSE Closest(cands, ref, i + 1, best)

(* GlobalLon with the roles of the two messages exchanged: the message   *)
(* passed first taken for the later one.                                  *)
GlobalLonFirstLater(t0, lon0, lon1, rlat0, rlat1, isAirborne) ==
    LET nl0  == IF t0 THEN cprNL(rlat1) ELSE cprNL(rlat0)
        ni   == IF t0 THEN (IF nl0 - 1 <= 1 THEN 1 ELSE nl0 - 1)
                      ELSE (IF nl0 <= 1 THEN 1 ELSE nl0)
        dlon == Rat(Zone(isAirborne), ni)
        lonc == IF t0 THEN lon1 ELSE lon0
        m    == RRound(RSub(RMul(lon0, RInt(nl0 - 1)), RMul(lon1, RInt(nl0))))
        lon  == RMul(dlon, RAdd(mod(RInt(m), RInt(ni)), lonc))
    IN  [nl |-> nl0, ni |-> ni, m |-> m, dlon |-> dlon,
         lon |-> IF RLe(RInt(180), lon) THEN RSub(lon, RInt(360)) ELSE lon]

(* lines 323-367: the longitude of the later message *)
GlobalLon(t0, lon0, lon1, rlat0, rlat1, isAirborne) ==
    LET nl0  == IF t0 THEN cprNL(rlat0) ELSE cprNL(rlat1)
        ni   == IF t0 THEN (IF nl0 <= 1 THEN 1 ELSE nl0)
                      ELSE (IF nl0 - 1 <= 1 THEN 1 ELSE nl0 - 1)
        dlon == Rat(Zone(isAirborne), ni)
        lonc == IF t0 THEN lon0 ELSE lon1
        m    == RRound(RSub(RMul(lon0, RInt(nl0 - 1)), RMul(lon1, RInt(nl0))))
        lon  == RMul(dlon, RAdd(mod(RInt(m), RInt(ni)), lonc))
    IN  [nl |-> nl0, ni |-> ni, m |-> m, dlon |-> dlon,
         lon |-> IF RLe(RInt(180), lon) THEN RSub(lon, RInt(360)) ELSE lon]

(* calcGlobal without the return of line 372: a surface pair without a    *)
(* reference keeps the unadjusted coordinates.                            *)
calcGlobalNoRefCheck(t0, lon0, lon1, rlat0, rlat1, isAirborne, referenceLat, referenceLon) ==
    LET lat   == IF t0 THEN rlat0 ELSE rlat1
        lon   == GlobalLon(t0, lon0, lon1, rlat0, rlat1, isAirborne).lon
        candidates    == [k \in 1..9 |-> WrapLon(RAdd(lon, RInt(90 * (k - 5))))]
        candidatesLat == [k \in 1..5 |-> ClampLat(RAdd(lat, RInt(90 * (k - 3))))]
    IN  IF isAirborne \/ referenceLon = Nil \/ referenceLat = Nil
        THEN <<lat, lon>>
        ELSE <<Closest(candidatesLat, referenceLat, 2, candidatesLat[1]),
               Closest(candidates, referenceLon, 2, candidates[1])>>

calcGlobal(t0, lon0, lon1, rlat0, rlat1, isAirborne, referenceLat, referenceLon) ==
    LET lat   == IF t0 THEN rlat0 ELSE rlat1
        lon   == GlobalLon(t0, lon0, lon1, rlat0, rlat1, isAirborne).lon
        candidates    == [k \in 1..9 |-> WrapLon(RAdd(lon, RInt(90 * (k - 5))))]
        candidatesLat == [k \in 1..5 |-> ClampLat(RAdd(lat, RInt(90 * (k - 3))))]
    IN  IF isAirborne THEN <<lat, lon>>
        ELSE IF referenceLon = Nil \/ referenceLat = Nil THEN <<>>
        ELSE <<Closest(candidatesLat, referenceLat, 2, candidatesLat[1]),
               Closest(candidates, referenceLon, 2, candidates[1])>>

(* lines 262-306: the two latitudes *)
GlobalLat(c1, c2, isAirBorne) ==
    LET t0   == c1.F # 0
        lat0 == IF c1.F = 0 THEN Frac17(c1.Lat) ELSE Frac17(c2.Lat)
        lon0 == IF c1.F = 0 THEN Frac17(c1.Lon) ELSE Frac17(c2.Lon)
        lat1 == IF c1.F = 0 THEN Frac17(c2.Lat) ELSE Frac17(c1.Lat)
        lon1 == IF c1.F = 0 THEN Frac17(c2.Lon) ELSE Frac17(c1.Lon)
        dlat0 == Rat(Zone(isAirBorne), 60)
        dlat1 == Rat(Zone(isAirBorne), 59)
        j    == RFloor(RAdd(RSub(RMul(RInt(59), lat0), RMul(RInt(60), lat1)),
                            Rat(1, 2)))
        r0   == RMul(dlat0, RAdd(mod(RInt(j), RInt(60)), lat0))
        r1   == RMul(dlat1, RAdd(mod(RInt(j), RInt(59)), lat1))
    IN  [t0 |-> t0, lon0 |-> lon0, lon1 |-> lon1, j |-> j,
         rlat0 |-> IF RLe(RInt(270), r0) THEN RSub(r0, RInt(360)) ELSE r0,
         rlat1 |-> IF RLe(RInt(270), r1) THEN RSub(r1, RInt(360)) ELSE r1]

DecodeGlobalPosition(c1, c2, isAirBorne, referenceLat, referenceLon) ==
    IF c1 = Nil \/ c2 = Nil
    THEN [coord |-> <<>>, err |-> newError("nil", "incomplete arguments")]
    ELSE IF c1.Nb # c2.Nb
    THEN [coord |-> <<>>, err |-> newError("nil", "bit encoding must be equal")]
    ELSE IF c1.F = c2.F
    THEN [coord |-> <<>>, err |-> newError("nil", "format must be different")]
    ELSE LET g == GlobalLat(c1, c2, isAirBorne)
         IN  IF cprNL(g.rlat0) # cprNL(g.rlat1)
             THEN [coord |-> <<>>, err |-> newError("nil", "positions cross latitude boundary")]
             ELSE [coord |-> calcGlobal(g.t0, g.lon0, g.lon1, g.rlat0, g.rlat1,
                                        isAirBorne, referenceLat, referenceLon),
                   err |-> NoErr]

----------------------------------------------------------------------------
(* Specification SpecNL: cprNL applied to pairs of latitudes.             *)

(* Latitudes tried: every 3 degrees, the reference points of the table's  *)
(* ends, and values on either side of the first threshold.                *)
NLInputs ==
    { RInt(k * 3) : k \in -30..30 }
    \cup { RInt(87), RInt(-87), RInt(88), RInt(-88), RInt(86), RInt(89) }
    \cup { Rat(1047047, 100000), Rat(1047048, 100000),
           Rat(104704713, 10000000), Rat(-104704713, 10000000),
           Rat(8653537, 100000), Rat(8699999, 100000) }

InitNL ==
    /\ nl \in [op : {"input"}, x : NLInputs, y : NLInputs]
    /\ cpr = Idle /\ dec = Idle /\ frm = Idle /\ msg = Idle

CallNL ==
    /\ nl.op = "input"
    /\ nl' = [op |-> "done", x |-> nl.x, y |-> nl.y,
              nx |-> cprNL(nl.x), ny |-> cprNL(nl.y)]
    /\ UNCHANGED <<cpr, dec, frm, msg>>

NextNL == CallNL

SpecNL == InitNL /\ [][NextNL]_vars

----------------------------------------------------------------------------
(* Specification SpecCPR: DecodeGlobalPosition applied to pairs of        *)
(* position reports, airborne and surface, with and without a reference.  *)

(* Number of evenly spaced 17-bit latitude values tried. *)
GridN == 6

LatVals == { (k * 131072) \div GridN : k \in 0..(GridN - 1) }

LonVals == { 0, 51372, 65536 }

CPRSet ==
    [Nb : {17}, T : {0}, F : {0, 1}, Lat : LatVals, Lon : LonVals]
    \cup { [Nb |-> 19, T |-> 0, F |-> 1, Lat |-> 0, Lon |-> 0] }

RefLats == { Nil, RInt(52), RInt(-35) }

RefLons == { Nil, RInt(4), RInt(-179), RInt(149) }

InitCPR ==
    /\ cpr \in [op : {"input"}, c1 : CPRSet \cup {Nil}, c2 : CPRSet \cup {Nil},
                isAirBorne : BOOLEAN, referenceLat : RefLats,
                referenceLon : RefLons]
    /\ nl = Idle /\ dec = Idle /\ frm = Idle /\ msg = Idle

CallDecodeGlobal ==
    /\ cpr.op = "input"
    /\ cpr' = [cpr EXCEPT !.op = "global"] @@
              [ret |-> DecodeGlobalPosition(cpr.c1, cpr.c2, cpr.isAirBorne,
                                            cpr.referenceLat, cpr.referenceLon)]
    /\ UNCHANGED <<nl, dec, frm, msg>>

NextCPR == CallDecodeGlobal

SpecCPR == InitCPR /\ [][NextCPR]_vars

(* The call returned coordinates: no error and a list of two elements. *)
GlobalReturned == cpr.op = "global" /\ cpr.ret.err = NoErr /\ Len(cpr.ret.coord) = 2

----------------------------------------------------------------------------
(* cpr.go: local decoding of one position report against a reference.     *)

(* dlat with the surface zone whatever isAirBorne says. *)
LocalDlatSurfaceOnly(isAirBorne, F) == Rat(90, 60 - F)

(* lines 213-218: dlat *)
LocalDlat(isAirBorne, F) == Rat(Zone(isAirBorne), 60 - F)

(* The zone index without the half that rounds to the nearest zone. *)
LocalIndexNoHalf(r, d, c) ==
    RFloor(RDiv(r, d)) + RFloor(RSub(RDiv(mod(r, d), d), c))

(* lines 220-221 and 244-245: floor(r/d) + floor(mod(r, d)/d - c + 0.5) *)
LocalIndex(r, d, c) ==
    RFloor(RDiv(r, d)) + RFloor(RAdd(RSub(RDiv(mod(r, d), d), c), Rat(1, 2)))

(* line 229: cprNL(coord[0]) - c.F, in uint8 *)
LocalNL(lat, F) == (cprNL(lat) - F + 256) % 256

(* lines 231-243: dlon *)
LocalDlon(isAirBorne, nl0) ==
    IF nl0 = 0 THEN RInt(Zone(isAirBorne)) ELSE Rat(Zone(isAirBorne), nl0)

(* c.DecodeLocal(rp, isAirBorne): [coord, err], rp a list of numbers *)
DecodeLocal(c, rp, isAirBorne) ==
    IF Len(rp) # 2
    THEN [coord |-> <<>>, err |-> newError("nil", "must provide [lat, lon] as argument")]
    ELSE IF RLt(RInt(90), rp[1]) \/ RLt(rp[1], RInt(-90))
    THEN [coord |-> <<>>, err |-> newError("nil", "latitude out of range (-90 to 90)")]
    ELSE IF RLt(RInt(190), rp[2]) \/ RLt(rp[2], RInt(-180))
    THEN [coord |-> <<>>, err |-> newError("nil", "longitude out of range (-180 to 180)")]
    ELSE LET latc == Frac17(c.Lat)
             lonc == Frac17(c.Lon)
             dlat == LocalDlat(isAirBorne, c.F)
             j    == LocalIndex(rp[1], dlat, latc)
             lat  == RMul(dlat, RAdd(RInt(j), latc))
             dlon == LocalDlon(isAirBorne, LocalNL(lat, c.F))
             m    == LocalIndex(rp[2], dlon, lonc)
         IN  [coord |-> <<lat, RMul(dlon, RAdd(RInt(m), lonc))>>, err |-> NoErr]

(* Specification SpecLocal: DecodeLocal applied to position reports with  *)
(* reference lists of every length, in and out of range.                   *)
LocalLatVals == { 0, 1, 32768, 92095, 93000, 131071 }

LocalLonVals == { 2, 39846, 51372, 65536, 131071 }

LocalCPRSet == [Nb : {17}, T : {0}, F : {0, 1}, Lat : LocalLatVals, Lon : LocalLonVals]

LocalRefLats ==
    { Rat(209, 4), RInt(-35), RInt(0), RInt(90), RInt(-90), Rat(179, 2), Rat(-881, 10),
      RInt(91), Rat(-901, 10) }

LocalRefLons ==
    { Rat(7, 2), RInt(0), RInt(149), RInt(180), RInt(-180), Rat(-3599, 20),
      RInt(185), RInt(190), RInt(191), Rat(-1801, 10) }

LocalRefs ==
    { <<la, lo>> : la \in LocalRefLats, lo \in LocalRefLons }
    \cup { <<>>, <<Rat(209, 4)>>, <<Rat(209, 4), Rat(7, 2), RInt(0)>> }

InitLocal ==
    /\ cpr \in [op : {"input"}, c : LocalCPRSet, rp : LocalRefs, isAirBorne : BOOLEAN]
    /\ nl = Idle /\ dec = Idle /\ frm = Idle /\ msg = Idle

CallDecodeLocal ==
    /\ cpr.op = "input"
    /\ cpr' = [cpr EXCEPT !.op = "local"] @@
              [ret |-> DecodeLocal(cpr.c, cpr.rp, cpr.isAirBorne)]
    /\ UNCHANGED <<nl, dec, frm, msg>>

NextLocal == CallDecodeLocal

SpecLocal == InitLocal /\ [][NextLocal]_vars

----------------------------------------------------------------------------
(* beast: Frame (beast.go is not among the sources; modelled from the     *)
(* specification's sections 3, 4.1 and 6 and from the package's tests).   *)

(* Non-negative integers beyond 32 bits: seven limbs of base 1000, the    *)
(* most significant first (up to 10^21 - 1; an int64 holds 2^63 - 1).     *)
BigZero == <<0, 0, 0, 0, 0, 0, 0>>

MaxInt64 == <<9, 223, 372, 36, 854, 775, 807>>

RECURSIVE MulAddFrom(_, _, _, _)
MulAddFrom(x, k, carry, i) ==
    IF i = 0 THEN <<>>
    ELSE LET v == x[i] * k + carry
         IN  Append(MulAddFrom(x, k, v \div 1000, i - 1), v % 1000)

(* x * k + c *)
BigMulAdd(x, k, c) == MulAddFrom(x, k, c, Len(x))

RECURSIVE DivFrom(_, _, _, _)
DivFrom(x, k, rem, i) ==
    IF i > Len(x) THEN <<>>
    ELSE LET v == rem * 1000 + x[i]
         IN  <<v \div k>> \o DivFrom(x, k, v % k, i + 1)

(* x / k, truncated *)
BigDiv(x, k) == DivFrom(x, k, 0, 1)

RECURSIVE BigLeFrom(_, _, _)
BigLeFrom(x, y, i) ==
    IF i > Len(x) THEN TRUE
    ELSE IF x[i] # y[i] THEN x[i] < y[i]
    ELSE BigLeFrom(x, y, i + 1)

BigLe(x, y) == BigLeFrom(x, y, 1)

(* bytes.ReplaceAll(data, {0x1A, 0x1A}, {0x1A}): pairs collapse from the  *)
(* left, without overlap.                                                  *)
RECURSIVE Unescape(_)
Unescape(b) ==
    IF Len(b) = 0 THEN <<>>
    ELSE IF Len(b) >= 2 /\ b[1] = 26 /\ b[2] = 26
         THEN <<26>> \o Unescape(SubSeq(b, 3, Len(b)))
         ELSE <<b[1]>> \o Unescape(SubSeq(b, 2, Len(b)))

(* A Frame before its deserialization. *)
EmptyFrame == [format |-> 0, stamp |-> <<>>, signal |-> 0, payload |-> <<>>]

(* The frame length, marker and type included, of a decodable type. *)
FrameLen(type) == IF type = 50 THEN 16 ELSE 23

(* Frame.UnmarshalBinary with the length checked before the type is      *)
(* known to be supported, and on the bytes as received.                    *)
FrameUnmarshalBinaryLengthFirst(f, data) ==
    IF data[1] # 26
    THEN [f |-> f, err |-> newError("nil", "format identifier not found")]
    ELSE IF data[2] \notin 49..52
    THEN [f |-> f, err |-> newError("nil", "invalid format identifier")]
    ELSE IF Len(data) # FrameLen(data[2])
    THEN [f |-> f,
          err |-> newErrorf("nil", "expected %d bytes, received %d",
                            <<FrameLen(data[2]), Len(data)>>)]
    ELSE IF data[2] \in {49, 52}
    THEN [f |-> f, err |-> newError("nil", "format not supported")]
    ELSE [f |-> [format  |-> data[2] - 48,
                 stamp   |-> SubSeq(data, 3, 8),
                 signal  |-> data[9],
                 payload |-> SubSeq(data, 10, Len(data))],
          err |-> NoErr]

(* Frame.UnmarshalBinary(data), data of at least two bytes, on frame f:   *)
(* [f |-> the frame after the call, err |-> the error returned].          *)
FrameUnmarshalBinary(f, data) ==
    IF data[1] # 26
    THEN [f |-> f, err |-> newError("nil", "format identifier not found")]
    ELSE IF data[2] \notin 49..52
    THEN [f |-> f, err |-> newError("nil", "invalid format identifier")]
    ELSE IF data[2] \in {49, 52}
    THEN [f |-> f, err |-> newError("nil", "format not supported")]
    ELSE LET u == Unescape(data)
         IN  IF Len(u) # FrameLen(data[2])
             THEN [f |-> f,
                   err |-> newErrorf("nil", "expected %d bytes, received %d",
                                     <<FrameLen(data[2]), Len(u)>>)]
             ELSE [f |-> [format  |-> data[2] - 48,
                          stamp   |-> SubSeq(u, 3, 8),
                          signal  |-> u[9],
                          payload |-> SubSeq(u, 10, Len(u))],
                   err |-> NoErr]

(* The 48-bit big-endian counter of the frame. *)
RECURSIVE TicksFrom(_, _)
TicksFrom(stamp, i) ==
    IF i = 0 THEN BigZero
    ELSE BigMulAdd(TicksFrom(stamp, i - 1), 256, stamp[i])

Ticks(f) == TicksFrom(f.stamp, Len(f.stamp))

(* x rounded to the nearest multiple of 500, halves upward, as            *)
(* time.Duration.Round(500 * time.Nanosecond) does.                       *)
Round500(x) ==
    LET r    == x[Len(x)] % 500
        down == [x EXCEPT ![Len(x)] = x[Len(x)] - r]
    IN  IF 2 * r >= 500 THEN BigMulAdd(down, 1, 500) ELSE down

(* Frame.Timestamp() without the rounding: ticks * 1000 / 12. *)
TimestampTruncated(f) == BigDiv(BigMulAdd(Ticks(f), 1000, 0), 12)

(* Frame.Timestamp() in nanoseconds: the 12 MHz counter converted by      *)
(* ticks * 1000 / 12 and rounded to 500 ns, which is what the decoder     *)
(* test's expected values (decoder_test.go lines 49 and 60) show.         *)
Timestamp(f) == Round500(BigDiv(BigMulAdd(Ticks(f), 1000, 0), 12))

----------------------------------------------------------------------------
(* Specification SpecFrame: Frame.UnmarshalBinary called directly, on a   *)
(* new Frame and again on the Frame it filled, and Frame.Timestamp.       *)

(* Filler byte of position i: distinct per position, never 0x1A. *)
Fill(i) == 64 + i

FillSeq(from, n) == [i \in 1..n |-> Fill(from + i)]

(* The two frames of the package's tests. *)
TestFrame2 ==
    <<26, 50, 22, 249, 51, 186, 243, 37, 196, 93, 169, 154, 218, 217, 95, 246>>

TestFrame3 ==
    <<26, 51, 22, 249, 51, 187, 198, 62, 198, 141, 169, 154, 218, 88, 185, 132,
      70, 231, 3, 53, 126, 36, 23>>

Stamps ==
    { <<0, 0, 0, 0, 0, 0>>, <<0, 0, 0, 0, 0, 3>>, <<0, 0, 0, 0, 0, 12>>,
      <<0, 0, 0, 0, 1, 0>>, <<255, 255, 255, 255, 255, 255>>,
      <<26, 0, 26, 0, 26, 0>>, <<1, 26, 26, 2, 3, 4>> }

(* Inputs: the test frames; frames of both types with each stamp, one of  *)
(* them holding an 0x1A 0x1A pair; and every header of two bytes drawn    *)
(* from the marker and type values, followed by 2, 14 or 21 bytes.        *)
FrameInputs ==
    { TestFrame2, TestFrame3 }
    \cup { <<26, 50>> \o st \o <<196>> \o FillSeq(0, 7) : st \in Stamps }
    \cup { <<26, 51>> \o st \o <<26>> \o FillSeq(0, 14) : st \in Stamps }
    \cup { <<26, 50>> \o st \o <<196>> \o FillSeq(0, 8) : st \in Stamps }
    \cup { <<a, b>> \o FillSeq(0, n) :
              a \in {26, 255}, b \in {26, 48, 49, 50, 51, 52, 53, 255},
              n \in {2, 14, 21} }

InitFrame ==
    /\ frm = [op |-> "new", data |-> <<>>, before |-> EmptyFrame,
              f |-> EmptyFrame, ret |-> NoErr, ns |-> BigZero]
    /\ nl = Idle /\ cpr = Idle /\ dec = Idle /\ msg = Idle

CallFrameUnmarshalBinary ==
    \E data \in FrameInputs :
        LET r == FrameUnmarshalBinary(frm.f, data)
        IN  /\ frm' = [op |-> "UnmarshalBinary", data |-> data, before |-> frm.f,
                       f |-> r.f, ret |-> r.err, ns |-> BigZero]
            /\ UNCHANGED <<nl, cpr, dec, msg>>

CallTimestamp ==
    /\ frm.op = "UnmarshalBinary"
    /\ frm.ret = NoErr
    /\ frm' = [frm EXCEPT !.op = "Timestamp", !.ns = Timestamp(frm.f)]
    /\ UNCHANGED <<nl, cpr, dec, msg>>

NextFrame == CallFrameUnmarshalBinary \/ CallTimestamp

SpecFrame == InitFrame /\ [][NextFrame]_vars

----------------------------------------------------------------------------
(* beast: Decoder (decoder.go is not among the sources; modelled from the *)
(* state machine of the specification's section 4.1, the error kinds of   *)
(* section 7 and the package's decoder tests).                             *)

HexDigit(v) ==
    CASE v = 0 -> "0" [] v = 1 -> "1" [] v = 2 -> "2" [] v = 3 -> "3"
      [] v = 4 -> "4" [] v = 5 -> "5" [] v = 6 -> "6" [] v = 7 -> "7"
      [] v = 8 -> "8" [] v = 9 -> "9" [] v = 10 -> "a" [] v = 11 -> "b"
      [] v = 12 -> "c" [] v = 13 -> "d" [] v = 14 -> "e" [] v = 15 -> "f"

(* fmt's %x of a byte: lower case, no leading zero *)
Hex(b) ==
    IF b < 16 THEN <<HexDigit(b)>> ELSE <<HexDigit(b \div 16), HexDigit(b % 16)>>

(* Unescaped bytes that follow the type byte: 14 and 21 for the decoded   *)
(* types, 7 for type 0x31 (section 4.1's table counts the type byte);     *)
(* type 0x34 is rejected once its type byte is read.                      *)
BodyLen(type) ==
    CASE type = 49 -> 7
      [] type = 50 -> 14
      [] type = 51 -> 21
      [] type = 52 -> 0

ErrEOF == newError("EOF", "error reading stream")

(* The end of a Decode call whose frame is complete: types 1 and 4 are    *)
(* rejected, types 2 and 3 go to Frame.UnmarshalBinary as marker, type    *)
(* and unescaped body.                                                     *)
Finish(f, typ, buf) ==
    IF typ \in {49, 52}
    THEN [f |-> f, err |-> newErrorf("nil", "format not supported: %x", Hex(typ))]
    ELSE FrameUnmarshalBinary(f, <<26, typ>> \o buf)

(* One read of each decoder state.  eof: the source is exhausted; b: the  *)
(* byte read otherwise.  The result names the next state, or "return"     *)
(* with the call's outcome.                                                *)
SyncStep(f, eof, b) ==
    IF eof THEN [pc |-> "return", f |-> f, err |-> ErrEOF]
    ELSE IF b # 26
    THEN [pc |-> "return", f |-> f, err |-> newError("nil", "data stream corrupt")]
    ELSE [pc |-> "typed"]

(* TypedStep taking type 0x34 for an unknown type. *)
TypedStepNo34(f, eof, b) ==
    IF eof THEN [pc |-> "return", f |-> f, err |-> ErrEOF]
    ELSE IF b \notin 49..51
    THEN [pc |-> "return", f |-> f,
          err |-> newErrorf("nil", "unsupported frame type: %x", Hex(b))]
    ELSE [pc |-> "body", typ |-> b]

TypedStep(f, eof, b) ==
    IF eof THEN [pc |-> "return", f |-> f, err |-> ErrEOF]
    ELSE IF b \notin 49..52
    THEN [pc |-> "return", f |-> f,
          err |-> newErrorf("nil", "unsupported frame type: %x", Hex(b))]
    ELSE IF BodyLen(b) = 0
    THEN [pc |-> "return"] @@ Finish(f, b, <<>>)
    ELSE [pc |-> "body", typ |-> b]

(* A byte joins the body; the call ends when the body is complete. *)
Collect(f, typ, buf, b) ==
    IF Len(buf) + 1 = BodyLen(typ)
    THEN [pc |-> "return"] @@ Finish(f, typ, Append(buf, b))
    ELSE [pc |-> "body", buf |-> Append(buf, b)]

BodyStep(f, typ, buf, eof, b) ==
    IF eof THEN [pc |-> "return", f |-> f, err |-> ErrEOF]
    ELSE IF b = 26 THEN [pc |-> "escape"]
    ELSE Collect(f, typ, buf, b)

(* EscapeStep reporting the end of the stream after a single 0x1A as a    *)
(* truncated frame.                                                        *)
EscapeStepEOFTruncated(f, typ, buf, eof, b) ==
    IF eof \/ b # 26
    THEN [pc |-> "return", f |-> f, err |-> newError("nil", "frame truncated")]
    ELSE Collect(f, typ, buf, 26)

(* The byte after an 0x1A of the body. *)
EscapeStep(f, typ, buf, eof, b) ==
    IF eof THEN [pc |-> "return", f |-> f, err |-> ErrEOF]
    ELSE IF b # 26
    THEN [pc |-> "return", f |-> f, err |-> newError("nil", "frame truncated")]
    ELSE Collect(f, typ, buf, 26)

----------------------------------------------------------------------------
(* Specification SpecDecoder: Decode called repeatedly on one Decoder and *)
(* one Frame, over a byte source that delivers its bytes in chunks.       *)

(* Largest number of bytes one read of the source delivers. *)
MaxChunk == 3

(* A frame body: stamp, signal and payload, filler bytes with 0x1A at the *)
(* positions of S. *)
Body(type, S) == [i \in 1..BodyLen(type) |-> IF i \in S THEN 26 ELSE Fill(i)]

(* Positions tried for 0x1A data bytes: the first two bytes of the stamp, *)
(* the signal, the first byte of the payload and the last byte; none, one *)
(* or two of them, adjacent ones included.                                 *)
EscSets(type) ==
    { S \in SUBSET {1, 2, 7, 8, BodyLen(type)} : Cardinality(S) <= 2 }

FrameSet ==
    UNION { { [type |-> t, body |-> Body(t, S)] : S \in EscSets(t) } : t \in {50, 51} }
    \cup { [type |-> d[2], body |-> SubSeq(d, 3, Len(d))] : d \in {TestFrame2, TestFrame3} }

SecondSet == { [type |-> 50, body |-> Body(50, {})], [type |-> 51, body |-> Body(51, {1})] }

CutSet ==
    { [type |-> 50, body |-> Body(50, {})], [type |-> 51, body |-> Body(51, {21})],
      [type |-> 50, body |-> Body(50, {1, 7})], [type |-> 49, body |-> Body(49, {})] }

(* The sender's escaping: every 0x1A of the body is doubled. *)
RECURSIVE Escape(_)
Escape(b) ==
    IF Len(b) = 0 THEN <<>>
    ELSE (IF b[1] = 26 THEN <<26, 26>> ELSE <<b[1]>>) \o Escape(Tail(b))

Wire(fr) == <<26, fr.type>> \o Escape(fr.body)

RECURSIVE WireAll(_)
WireAll(frs) == IF Len(frs) = 0 THEN <<>> ELSE Wire(Head(frs)) \o WireAll(Tail(frs))

(* Streams: one or two well-formed frames; a frame cut short, alone or    *)
(* followed by a whole frame; and headers of every marker and type value  *)
(* followed by nothing or by filler.                                       *)
DecoderInputs ==
    { [kind |-> "frames", frames |-> <<f1>>, stream |-> Wire(f1)] : f1 \in FrameSet }
    \cup { [kind |-> "frames", frames |-> <<f1, f2>>, stream |-> WireAll(<<f1, f2>>)] :
              f1 \in FrameSet, f2 \in SecondSet }
    \cup UNION { { [kind |-> "cut", frames |-> <<>>,
                    stream |-> SubSeq(Wire(f1), 1, k) \o tail] :
                      k \in 0..(Len(Wire(f1)) - 1),
                      tail \in {<<>>, Wire([type |-> 51, body |-> Body(51, {})])} } :
                  f1 \in CutSet }
    \cup { [kind |-> "header", frames |-> <<>>, stream |-> <<a, b>> \o FillSeq(0, n)] :
              a \in {26, 255}, b \in {0, 26, 48, 49, 50, 51, 52, 53, 255},
              n \in {0, 7, 9, 21} }

(* NewDecoder(r) and new(Frame) *)
NewDecoder(input) ==
    [op |-> "decode", input |-> input, src |-> input.stream, rbuf |-> <<>>, pc |-> "sync",
     typ |-> 0, buf |-> <<>>, f |-> EmptyFrame, out |-> <<>>, start |-> 0]

InitDecoder ==
    /\ dec \in { NewDecoder(input) : input \in DecoderInputs }
    /\ nl = Idle /\ cpr = Idle /\ frm = Idle /\ msg = Idle

(* The decoder reads one byte: from its buffer, or, the buffer empty,     *)
(* after a read of the source that delivered n bytes.                      *)
ChunkOK(n) ==
    IF dec.rbuf = <<>> /\ dec.src # <<>> THEN n <= Len(dec.src) ELSE n = 1

Fetch(n) ==
    IF dec.rbuf # <<>>
    THEN [eof |-> FALSE, b |-> Head(dec.rbuf), rbuf |-> Tail(dec.rbuf), src |-> dec.src]
    ELSE IF dec.src = <<>>
    THEN [eof |-> TRUE, b |-> 0, rbuf |-> <<>>, src |-> <<>>]
    ELSE [eof |-> FALSE, b |-> dec.src[1], rbuf |-> SubSeq(dec.src, 2, n),
          src |-> SubSeq(dec.src, n + 1, Len(dec.src))]

(* The decoder after a step with result r and read rd.  A call that       *)
(* returns is recorded in out with the offset its first byte had; after   *)
(* an error the decoder is not used again.                                *)
Advance(r, rd) ==
    IF r.pc = "return"
    THEN [dec EXCEPT !.pc = IF r.err = NoErr THEN "sync" ELSE "stopped",
                     !.typ = 0, !.buf = <<>>, !.f = r.f,
                     !.out = Append(@, [start |-> dec.start, f |-> r.f, err |-> r.err]),
                     !.start = Len(dec.input.stream) - Len(rd.rbuf) - Len(rd.src),
                     !.rbuf = rd.rbuf, !.src = rd.src]
    ELSE [dec EXCEPT !.pc = r.pc,
                     !.typ = IF "typ" \in DOMAIN r THEN r.typ ELSE @,
                     !.buf = IF "buf" \in DOMAIN r THEN r.buf ELSE @,
                     !.rbuf = rd.rbuf, !.src = rd.src]

ReadSync ==
    \E n \in 1..MaxChunk :
        /\ dec.pc = "sync"
        /\ ChunkOK(n)
        /\ dec' = Advance(SyncStep(dec.f, Fetch(n).eof, Fetch(n).b), Fetch(n))
        /\ UNCHANGED <<nl, cpr, frm, msg>>

ReadTyped ==
    \E n \in 1..MaxChunk :
        /\ dec.pc = "typed"
        /\ ChunkOK(n)
        /\ dec' = Advance(TypedStep(dec.f, Fetch(n).eof, Fetch(n).b), Fetch(n))
        /\ UNCHANGED <<nl, cpr, frm, msg>>

ReadBody ==
    \E n \in 1..MaxChunk :
        /\ dec.pc = "body"
        /\ ChunkOK(n)
        /\ dec' = Advance(BodyStep(dec.f, dec.typ, dec.buf, Fetch(n).eof, Fetch(n).b),
                          Fetch(n))
        /\ UNCHANGED <<nl, cpr, frm, msg>>

ReadEscape ==
    \E n \in 1..MaxChunk :
        /\ dec.pc = "escape"
        /\ ChunkOK(n)
        /\ dec' = Advance(EscapeStep(dec.f, dec.typ, dec.buf, Fetch(n).eof, Fetch(n).b),
                          Fetch(n))
        /\ UNCHANGED <<nl, cpr, frm, msg>>

NextDecoder == ReadSync \/ ReadTyped \/ ReadBody \/ ReadEscape

SpecDecoder == InitDecoder /\ [][NextDecoder]_vars

----------------------------------------------------------------------------
(* adsb: RawMessage (raw.go, not among the sources: modelled from the     *)
(* specification's section 4.2) and Message (message.go).                  *)

(* RawMessage.UnmarshalBinary accepts exactly 7 or 14 bytes and stores     *)
(* them; anything else is a deserialization failure that stores nothing.  *)
RawUnmarshalBinary(raw, data) ==
    IF Len(data) \in {7, 14}
    THEN [raw |-> [data |-> data], err |-> NoErr]
    ELSE [raw |-> raw, err |-> newError("nil", "invalid message length")]

(* RawMessage.DF: bits 1..5 of the message; an error when none is loaded. *)
RawDF(raw) ==
    IF Len(raw.data) = 0
    THEN [df |-> 0, err |-> newError("nil", "no data loaded")]
    ELSE [df |-> raw.data[1] \div 8, err |-> NoErr]

(* The accepted downlink formats with 19 for 18: a slip in the case list. *)
AcceptedDFSlip == {0, 4, 5, 11, 16, 17, 19, 20, 21, 24}

(* The case list of validateRaw's switch, line 87. *)
AcceptedDF == {0, 4, 5, 11, 16, 17, 18, 20, 21, 24}

(* Message.validateRaw *)
validateRaw(raw) ==
    LET r == RawDF(raw)
    IN  IF r.err # NoErr THEN r.err
        ELSE IF r.df \in AcceptedDF THEN NoErr
        ELSE newErrorf("ErrUnsupported", "downlink format %d", <<r.df>>)

(* Messages tried: every value of the DF field, short and long, with two  *)
(* settings of the first byte's low bits; and three of a wrong length.    *)
EmptyRaw == [data |-> <<>>]

MsgBytes(first, len) == [i \in 1..len |-> IF i = 1 THEN first ELSE (i * 37) % 256]

MsgInputs ==
    { MsgBytes(df * 8 + low, len) : df \in 0..31, low \in {0, 5}, len \in {7, 14} }
    \cup { <<>>, MsgBytes(136, 6), MsgBytes(136, 15) }

InitMsg ==
    /\ msg = [op |-> "new", raw |-> Nil, data |-> <<>>, ret |-> NoErr, m |-> Nil]
    /\ nl = Idle /\ cpr = Idle /\ dec = Idle /\ frm = Idle

(* m.UnmarshalBinary(data) on the Message held in msg *)
MessageUnmarshalBinary(data) ==
    LET raw0 == IF msg.raw = Nil THEN EmptyRaw ELSE msg.raw
        r    == RawUnmarshalBinary(raw0, data)
    IN  /\ msg' = [op |-> "UnmarshalBinary", raw |-> r.raw, data |-> data,
                   ret |-> IF r.err # NoErr THEN r.err ELSE validateRaw(r.raw),
                   m |-> Nil]
        /\ UNCHANGED <<nl, cpr, dec, frm>>

(* NewMessage(r): the new Message replaces the one held in msg; m is the  *)
(* returned pointer.                                                       *)
NewMessage(r) ==
    LET err == validateRaw(r)
    IN  /\ msg' = [op |-> "NewMessage", raw |-> r, data |-> r.data, ret |-> err,
                   m |-> IF err # NoErr THEN Nil ELSE [raw |-> r]]
        /\ UNCHANGED <<nl, cpr, dec, frm>>

NextMsg ==
    \/ \E data \in MsgInputs : MessageUnmarshalBinary(data)
    \/ \E data \in MsgInputs :
          /\ Len(data) \in {0, 7, 14}
          /\ NewMessage([data |-> data])

SpecMsg == InitMsg /\ [][NextMsg]_vars

(* Message.Raw() *)
Raw == msg.raw

----------------------------------------------------------------------------
(* adsb: Message.Call (message.go) over RawMessage's bit accessors        *)
(* (raw.go, not among the sources: modelled from the specification's      *)
(* sections 3 and 4.2: bits numbered from 1, most significant first).     *)

(* Bit n of the message. *)
RawBit(raw, n) == (raw.data[((n - 1) \div 8) + 1] \div (2 ^ (7 - ((n - 1) % 8)))) % 2

(* The bits a..b of the message, first bit first: RawMessage.Bits(a, b)   *)
(* before they are read as a number.                                       *)
RawBitSeq(raw, a, b) == [k \in 1..(b - a + 1) |-> RawBit(raw, a + k - 1)]

RECURSIVE BitsValue(_)
BitsValue(bs) ==
    IF Len(bs) = 0 THEN 0
    ELSE 2 * BitsValue(SubSeq(bs, 1, Len(bs) - 1)) + bs[Len(bs)]

(* RawMessage.Bits(a, b) for a range of at most 31 bits *)
RawBits(raw, a, b) == BitsValue(RawBitSeq(raw, a, b))

(* RawMessage.ESType: the type code, bits 33..37 *)
RawESType(raw) == RawBits(raw, 33, 37)

(* callChars with the digits one slot late. *)
callCharsDigitsLate ==
    << "?", "A", "B", "C", "D", "E", "F", "G", "H", "I", "J", "K", "L", "M", "N", "O",
       "P", "Q", "R", "S", "T", "U", "V", "W", "X", "Y", "Z", "?", "?", "?", "?", "?",
       " ", "?", "?", "?", "?", "?", "?", "?", "?", "?", "?", "?", "?", "?", "?", "?",
       "?", "0", "1", "2", "3", "4", "5", "6", "7", "8", "9", "?", "?", "?", "?", "?" >>

(* callChars, indexed from 1 here and from 0 in the source *)
callChars ==
    << "?", "A", "B", "C", "D", "E", "F", "G", "H", "I", "J", "K", "L", "M", "N", "O",
       "P", "Q", "R", "S", "T", "U", "V", "W", "X", "Y", "Z", "?", "?", "?", "?", "?",
       " ", "?", "?", "?", "?", "?", "?", "?", "?", "?", "?", "?", "?", "?", "?", "?",
       "0", "1", "2", "3", "4", "5", "6", "7", "8", "9", "?", "?", "?", "?", "?", "?" >>

(* (bits >> (42 - i*6)) & 0x3F of the 48 bits: the i-th group of six,     *)
(* i from 0.                                                               *)
CallGroup(bits, i) == BitsValue(SubSeq(bits, 6 * i + 1, 6 * i + 6))

(* bytes.TrimRight(call, " ") *)
RECURSIVE TrimRight(_)
TrimRight(call) ==
    IF Len(call) > 0 /\ call[Len(call)] = " "
    THEN TrimRight(SubSeq(call, 1, Len(call) - 1))
    ELSE call

ErrCallNotAvailable == newError("ErrNotAvailable", "error retrieving callsign")

(* Message.Call on a Message holding raw: [call, err], the callsign a     *)
(* sequence of characters.                                                 *)
Call(raw) ==
    LET r == RawDF(raw)
    IN  IF r.err # NoErr
        THEN [call |-> <<>>, err |-> newError(r.err.msg, "error retrieving callsign")]
        ELSE IF r.df \in {17, 18} /\ (RawESType(raw) < 1 \/ RawESType(raw) > 4)
        THEN [call |-> <<>>, err |-> ErrCallNotAvailable]
        ELSE IF r.df \in {20, 21} /\ RawBits(raw, 33, 40) # 32
        THEN [call |-> <<>>, err |-> ErrCallNotAvailable]
        ELSE IF r.df \notin {17, 18, 20, 21}
        THEN [call |-> <<>>, err |-> ErrCallNotAvailable]
        ELSE LET bits == RawBitSeq(raw, 41, 88)
             IN  [call |-> TrimRight([i \in 1..8 |-> callChars[CallGroup(bits, i - 1) + 1]]),
                  err  |-> NoErr]

(* Specification SpecCall: a Message is built around a callsign field and *)
(* Call is applied to it.                                                  *)

(* Longest callsign drawn freely from CallAlphabet. *)
MaxCallLen == 3

Letters ==
    << "A", "B", "C", "D", "E", "F", "G", "H", "I", "J", "K", "L", "M",
       "N", "O", "P", "Q", "R", "S", "T", "U", "V", "W", "X", "Y", "Z" >>

Digits == << "0", "1", "2", "3", "4", "5", "6", "7", "8", "9" >>

(* The sender's code of a character: A-Z are 1..26, 0-9 are 48..57, the   *)
(* space is 32.                                                            *)
EncChar(c) ==
    IF \E i \in 1..26 : Letters[i] = c THEN CHOOSE i \in 1..26 : Letters[i] = c
    ELSE IF \E i \in 1..10 : Digits[i] = c THEN 47 + (CHOOSE i \in 1..10 : Digits[i] = c)
    ELSE 32

(* The eight codes of a callsign, padded on the right with spaces. *)
EncCall(str) == [i \in 1..8 |-> IF i <= Len(str) THEN EncChar(str[i]) ELSE 32]

(* The 48 bits of eight codes, and the six bytes that carry them. *)
CodeBits(codes) == [k \in 1..48 |-> (codes[((k - 1) \div 6) + 1] \div (2 ^ (5 - ((k - 1) % 6)))) % 2]

PackCodes(codes) == [j \in 1..6 |-> BitsValue(SubSeq(CodeBits(codes), 8 * j - 7, 8 * j))]

(* A long message: DF and capability, address, byte 5 (type code and      *)
(* category, or the BDS code of a Comm-B reply), the callsign field at     *)
(* bits 41..88, parity.                                                    *)
CallMessage(df, b5, codes) ==
    <<df * 8 + 5, 169, 154, 218, b5>> \o PackCodes(codes) \o <<1, 2, 3>>

CallAlphabet == {"A", "W", "Z", "0", "3", "9"}

RECURSIVE StringsUpTo(_)
StringsUpTo(n) ==
    IF n = 0 THEN {<<>>}
    ELSE LET shorter == StringsUpTo(n - 1)
         IN  shorter \cup { Append(str, c) : str \in { t \in shorter : Len(t) = n - 1 },
                                             c \in CallAlphabet }

CallStrings ==
    StringsUpTo(MaxCallLen)
    \cup { <<"B", "A", "W", "1", "2", "3">>, <<"K", "L", "M", "1", "0", "2", "3", "X">>,
           <<"Q", "F", "A", "4", "5", "6", "7">> }

(* Inputs: every callsign string in DF 17 and 18 with TC 1..4; every      *)
(* 6-bit code at every position among seven "A"; and messages with other  *)
(* formats, type codes and BDS codes.                                      *)
CallInputs ==
    { [kind |-> "string", str |-> str, p |-> 0, v |-> 0,
       data |-> CallMessage(df, tc * 8, EncCall(str))] :
         str \in CallStrings, df \in {17, 18}, tc \in 1..4 }
    \cup { [kind |-> "code", str |-> <<>>, p |-> p, v |-> v,
            data |-> CallMessage(17, 4 * 8 + 3, [i \in 1..8 |-> IF i = p THEN v ELSE 1])] :
              p \in 1..8, v \in 0..63 }
    \cup { [kind |-> "other", str |-> <<"A", "9">>, p |-> 0, v |-> 0,
            data |-> CallMessage(df, b5, EncCall(<<"A", "9">>))] :
              df \in {0, 4, 11, 17, 18, 20, 21}, b5 \in {0, 7, 8, 32, 39, 40, 48} }

InitCall ==
    /\ msg = [op |-> "new", input |-> [kind |-> "none"], raw |-> EmptyRaw,
              call |-> <<>>, ret |-> NoErr]
    /\ nl = Idle /\ cpr = Idle /\ dec = Idle /\ frm = Idle

(* NewMessage on a RawMessage holding the input's bytes *)
LoadCallMessage ==
    \E input \in CallInputs :
        /\ msg.op = "new"
        /\ validateRaw([data |-> input.data]) = NoErr
        /\ msg' = [op |-> "loaded", input |-> input, raw |-> [data |-> input.data],
                   call |-> <<>>, ret |-> NoErr]
        /\ UNCHANGED <<nl, cpr, dec, frm>>

CallCall ==
    /\ msg.op = "loaded"
    /\ msg' = [msg EXCEPT !.op = "Call", !.call = Call(msg.raw).call,
                          !.ret = Call(msg.raw).err]
    /\ UNCHANGED <<nl, cpr, dec, frm>>

NextCall == LoadCallMessage \/ CallCall

SpecCall == InitCall /\ [][NextCall]_vars


----------------------------------------------------------------------------
(* C6: cprNL is monotonically non-increasing in |lat|, and cprNL(0) = 59, *)
(* cprNL(87) = 2, cprNL(88) = 1.                                           *)
C6_NLMonotoneAndReference ==
    nl.op = "done" =>
        /\ (RLe(RAbs(nl.x), RAbs(nl.y)) => nl.nx >= nl.ny)
        /\ (nl.x = RInt(0) => nl.nx = 59)
        /\ (nl.x = RInt(87) => nl.nx = 2)
        /\ (nl.x = RInt(88) => nl.nx = 1)

(* The parts of C6 the code satisfies: monotonicity and the values at 0   *)
(* and 88; at exactly 87 the strict comparison of line 518 gives 1.       *)
C6_NLMonotoneOnly ==
    nl.op = "done" =>
        /\ (RLe(RAbs(nl.x), RAbs(nl.y)) => nl.nx >= nl.ny)
        /\ (nl.x = RInt(0) => nl.nx = 59)
        /\ (nl.x = RInt(87) => nl.nx = 1)
        /\ (nl.x = RInt(88) => nl.nx = 1)

----------------------------------------------------------------------------
(* C5: for two reports of equal Nb and different F, whenever              *)
(* DecodeGlobalPosition returns coordinates the latitude lies within      *)
(* [-90, 90] and the longitude within (-180, 180].                        *)
C5_GlobalInRange ==
    GlobalReturned =>
        /\ RLe(RInt(-90), cpr.ret.coord[1]) /\ RLe(cpr.ret.coord[1], RInt(90))
        /\ RLt(RInt(-180), cpr.ret.coord[2]) /\ RLe(cpr.ret.coord[2], RInt(180))

(* C10: a surface pair that passes the argument validation and the        *)
(* NL-equality check, decoded without referenceLat or referenceLon,       *)
(* returns an empty coordinate list and no error.                         *)
C10_SurfaceNoReferenceEmpty ==
    ( /\ cpr.op = "global"
      /\ ~cpr.isAirBorne
      /\ cpr.referenceLat = Nil \/ cpr.referenceLon = Nil
      /\ cpr.c1 # Nil /\ cpr.c2 # Nil
      /\ cpr.c1.Nb = cpr.c2.Nb
      /\ cpr.c1.F # cpr.c2.F
      /\ LET g == GlobalLat(cpr.c1, cpr.c2, FALSE)
         IN  cprNL(g.rlat0) = cprNL(g.rlat1) )
    => cpr.ret = [coord |-> <<>>, err |-> NoErr]

C10_Witness ==
    /\ cpr.op = "global"
    /\ ~cpr.isAirBorne
    /\ cpr.referenceLat = Nil
    /\ cpr.referenceLon # Nil
    /\ cpr.ret = [coord |-> <<>>, err |-> NoErr]

----------------------------------------------------------------------------
(* C9: for a message of 7 or 14 bytes, Message.UnmarshalBinary and        *)
(* NewMessage succeed exactly when its DF (the first five bits) is one of *)
(* 0, 4, 5, 11, 16, 17, 18, 20, 21, 24; for any other DF they return an   *)
(* error wrapping ErrUnsupported, and after that error from                *)
(* UnmarshalBinary Raw() returns the RawMessage holding the supplied      *)
(* bytes.                                                                  *)
C9_AcceptedDF ==
    (msg.op \in {"UnmarshalBinary", "NewMessage"} /\ Len(msg.data) \in {7, 14}) =>
        LET df == msg.data[1] \div 8
        IN  IF df \in {0, 4, 5, 11, 16, 17, 18, 20, 21, 24}
            THEN /\ msg.ret = NoErr
                 /\ (msg.op = "NewMessage" => msg.m # Nil /\ msg.m.raw.data = msg.data)
            ELSE /\ msg.ret # NoErr
                 /\ msg.ret.wraps = "ErrUnsupported"
                 /\ (msg.op = "NewMessage" => msg.m = Nil)
                 /\ (msg.op = "UnmarshalBinary" =>
                        Raw # Nil /\ Raw.data = msg.data)

(* An unsupported DF (19) arrives on a Message that held another message. *)
C9_Witness ==
    /\ msg.op = "UnmarshalBinary"
    /\ Len(msg.data) = 14
    /\ msg.data[1] \div 8 = 19
    /\ msg.ret # NoErr
    /\ msg.ret.wraps = "ErrUnsupported"
    /\ Raw.data = msg.data

----------------------------------------------------------------------------
(* The number of 0x1A 0x1A pairs collapsed in b: half of every maximal    *)
(* run of 0x1A bytes, rounded down; run is the length of the run so far.  *)
RECURSIVE PairsFrom(_, _, _)
PairsFrom(b, i, run) ==
    IF i > Len(b) THEN run \div 2
    ELSE IF b[i] = 26 THEN PairsFrom(b, i + 1, run + 1)
    ELSE (run \div 2) + PairsFrom(b, i + 1, 0)

C8_UnmarshalValidation ==
    frm.op = "UnmarshalBinary" =>
        LET d == frm.data
            m == Len(d) - PairsFrom(d, 1, 0)
            n == IF d[2] = 50 THEN 16 ELSE 23
        IN  IF d[1] # 26
            THEN /\ frm.ret = newError("nil", "format identifier not found")
                 /\ frm.f = frm.before
            ELSE IF d[2] \notin 49..52
            THEN /\ frm.ret = newError("nil", "invalid format identifier")
                 /\ frm.f = frm.before
            ELSE IF d[2] \in {49, 52}
            THEN /\ frm.ret = newError("nil", "format not supported")
                 /\ frm.f = frm.before
            ELSE IF m # n
            THEN /\ frm.ret = newErrorf("nil", "expected %d bytes, received %d",
                                        <<n, m>>)
                 /\ frm.f = frm.before
            ELSE frm.ret.msg \notin { "format identifier not found",
                                      "invalid format identifier",
                                      "format not supported",
                                      "expected %d bytes, received %d" }

(* A filled Frame is handed 16 bytes of type 0x32 holding one pair. *)
C8_Witness ==
    /\ frm.op = "UnmarshalBinary"
    /\ Len(frm.data) = 16
    /\ frm.data[2] = 50
    /\ frm.ret = newErrorf("nil", "expected %d bytes, received %d", <<16, 15>>)
    /\ frm.before # EmptyFrame
    /\ frm.f = frm.before

----------------------------------------------------------------------------
(* Decoder claims.  The bytes of the stream that a recorded call started  *)
(* at, and how the frame that begins there ends when the stream is read   *)
(* as a whole: with its body complete, at the end of the stream, or at an *)
(* 0x1A followed by another byte.                                          *)
Rest(o) == SubSeq(dec.input.stream, o.start + 1, Len(dec.input.stream))

RECURSIVE Scan(_, _, _, _)
Scan(r, i, count, need) ==
    IF count = need THEN "complete"
    ELSE IF i > Len(r) THEN "eof"
    ELSE IF r[i] # 26 THEN Scan(r, i + 1, count + 1, need)
    ELSE IF i + 1 > Len(r) THEN "eof"
    ELSE IF r[i + 1] = 26 THEN Scan(r, i + 2, count + 1, need)
    ELSE "truncated"

Ends(r) ==
    IF Len(r) < 2 THEN "eof"
    ELSE IF r[1] # 26 \/ r[2] \notin 49..52 THEN "header"
    ELSE Scan(r, 3, 0, IF r[2] = 49 THEN 7 ELSE IF r[2] = 50 THEN 14
                       ELSE IF r[2] = 51 THEN 21 ELSE 0)

(* The Frame a sent frame should decode to, and the Frame handed to the   *)
(* i-th call.                                                              *)
FrameOf(fr) ==
    [format  |-> fr.type - 48,
     stamp   |-> SubSeq(fr.body, 1, 6),
     signal  |-> fr.body[7],
     payload |-> SubSeq(fr.body, 8, Len(fr.body))]

FrameBefore(i) == IF i = 1 THEN EmptyFrame ELSE dec.out[i - 1].f

HasAdjacent(fr) ==
    \E i \in 1..(Len(fr.body) - 1) : fr.body[i] = 26 /\ fr.body[i + 1] = 26

(* C1 as stated: over a concatenation of well-formed type-2/type-3        *)
(* frames, however the source splits the bytes, the i-th Decode call      *)
(* returns the i-th frame sent, whole and with identical contents, and    *)
(* the call after the last frame returns the end-of-stream error.         *)
C1_OneFramePerCall ==
    dec.op = "decode" /\ dec.input.kind = "frames" =>
        /\ Len(dec.out) <= Len(dec.input.frames) + 1
        /\ \A i \in 1..Len(dec.out) :
              IF i <= Len(dec.input.frames)
              THEN /\ dec.out[i].err = NoErr
                   /\ dec.out[i].f = FrameOf(dec.input.frames[i])
                   /\ Ends(Rest(dec.out[i])) = "complete"
              ELSE dec.out[i].err = ErrEOF

(* What holds of C1: the same, for streams none of whose frames carries   *)
(* two adjacent 0x1A data bytes.                                           *)
C1_WithoutAdjacentEscapes ==
    /\ dec.op = "decode"
    /\ dec.input.kind = "frames"
    /\ \A k \in 1..Len(dec.input.frames) : ~HasAdjacent(dec.input.frames[k])
    => /\ Len(dec.out) <= Len(dec.input.frames) + 1
       /\ \A i \in 1..Len(dec.out) :
             IF i <= Len(dec.input.frames)
             THEN /\ dec.out[i].err = NoErr
                  /\ dec.out[i].f = FrameOf(dec.input.frames[i])
             ELSE dec.out[i].err = ErrEOF

(* C2 as stated: a type-2 or type-3 frame whose 0x1A data bytes, adjacent *)
(* ones included, are doubled on the wire decodes to a Frame whose stamp, *)
(* signal and payload are the original bytes, the payload 7 bytes long    *)
(* for type 2 and 14 for type 3.                                           *)
C2_EscapeRoundTrip ==
    dec.op = "decode" /\ dec.input.kind = "frames" /\ Len(dec.out) >= 1 =>
        LET fr == dec.input.frames[1]
            o  == dec.out[1]
        IN  /\ o.err = NoErr
            /\ o.f.stamp = SubSeq(fr.body, 1, 6)
            /\ o.f.signal = fr.body[7]
            /\ o.f.payload = SubSeq(fr.body, 8, Len(fr.body))
            /\ Len(o.f.payload) = (IF fr.type = 50 THEN 7 ELSE 14)

C11_CallRoundTrip ==
    msg.op = "Call" =>
        /\ msg.input.kind = "string" =>
              /\ msg.ret = NoErr
              /\ msg.call = msg.input.str
        /\ msg.input.kind = "code"
              /\ msg.input.v \notin (1..26) \cup {32} \cup (48..57) =>
              /\ msg.ret = NoErr
              /\ Len(msg.call) = 8
              /\ msg.call[msg.input.p] = "?"
              /\ \A i \in (1..8) \ {msg.input.p} : msg.call[i] = "A"

(* "BAW123" comes back from a DF 17 message with TC 4. *)
C11_Witness ==
    /\ msg.op = "Call"
    /\ msg.input.kind = "string"
    /\ msg.input.str = <<"B", "A", "W", "1", "2", "3">>
    /\ msg.raw.data[1] \div 8 = 17
    /\ msg.raw.data[5] \div 8 = 4
    /\ msg.raw.data[6] = 8
    /\ msg.call = <<"B", "A", "W", "1", "2", "3">>
    /\ msg.ret = NoErr

(* C12 as stated: cprNL(10.47047) = 58 and cprNL(10.47048) = 59.          *)
C12_NLBoundary ==
    nl.op = "done" =>
        /\ (nl.x = Rat(1047047, 100000) => nl.nx = 58)
        /\ (nl.x = Rat(1047048, 100000) => nl.nx = 59)

(* C12 as amended: 10.47047 lies below the threshold 10.47047130 of entry *)
(* 59 and 10.47048 above it, so cprNL(10.47047) = 59 and                   *)
(* cprNL(10.47048) = 58.                                                   *)
C12_NLBoundaryAsCoded ==
    nl.op = "done" =>
        /\ (nl.x = Rat(1047047, 100000) => nl.nx = 59)
        /\ (nl.x = Rat(1047048, 100000) => nl.nx = 58)

C12_Witness ==
    /\ nl.op = "done"
    /\ nl.x = Rat(1047047, 100000)
    /\ nl.y = Rat(1047048, 100000)
    /\ nl.nx = 59
    /\ nl.ny = 58

(* |v - centre| <= 1e-4, centre given in units of 1e-5 *)
Within1e4(v, centre) ==
    /\ RLe(Rat(centre - 10, 100000), v)
    /\ RLe(v, Rat(centre + 10, 100000))

LocalScenario(lat, lon) ==
    /\ cpr.op = "local"
    /\ cpr.c = [Nb |-> 17, T |-> 0, F |-> 0, Lat |-> lat, Lon |-> lon]
    /\ cpr.rp = <<Rat(209, 4), Rat(7, 2)>>
    /\ cpr.isAirBorne

(* C13 as stated: CPR{F=0, Lat=92095, Lon=39846}.DecodeLocal with the     *)
(* reference (52.25, 3.5), airborne, returns a position within 1e-4       *)
(* degrees of (52.25720, 3.91937).                                         *)
C13_LocalScenario ==
    LocalScenario(92095, 39846) =>
        /\ cpr.ret.err = NoErr
        /\ Within1e4(cpr.ret.coord[1], 5225720)
        /\ Within1e4(cpr.ret.coord[2], 391937)

(* C13 as amended: that call returns a position within 1e-4 degrees of    *)
(* (52.21577, 3.04001); the position (52.25720, 3.91937) is returned for  *)
(* the report F=0, Lat=93000, Lon=51372 with the same reference.           *)
C13_LocalScenarioAsCoded ==
    /\ LocalScenario(92095, 39846) =>
          /\ cpr.ret.err = NoErr
          /\ Within1e4(cpr.ret.coord[1], 5221577)
          /\ Within1e4(cpr.ret.coord[2], 304001)
    /\ LocalScenario(93000, 51372) =>
          /\ cpr.ret.err = NoErr
          /\ Within1e4(cpr.ret.coord[1], 5225720)
          /\ Within1e4(cpr.ret.coord[2], 391937)

C13_Witness ==
    /\ LocalScenario(92095, 39846)
    /\ cpr.ret.err = NoErr
    /\ cpr.ret.coord = <<Rat(3422013, 65536), Rat(99615, 32768)>>

(* The longitude of an airborne pair computed from a zone count nlm used  *)
(* in m and a zone count ni used in Dlon and in the modulus.              *)
LonFrom(nlm, ni, lon0, lon1, lonLater) ==
    LET m   == RRound(RSub(RMul(lon0, RInt(nlm - 1)), RMul(lon1, RInt(nlm))))
        lon == RMul(Rat(360, ni), RAdd(mod(RInt(m), RInt(ni)), lonLater))
    IN  IF RLe(RInt(180), lon) THEN RSub(lon, RInt(360)) ELSE lon

MaxOne(k) == IF k <= 1 THEN 1 ELSE k

AirbornePair == GlobalReturned /\ cpr.isAirBorne

(* C14 as stated: the message passed second is the later one; when it is  *)
(* the odd one the position is rlat1 with nl = NL(rlat1) - 1, when it is  *)
(* the even one rlat0 with nl = NL(rlat0); with that nl, ni = max(nl, 1), *)
(* Dlon = zone / ni, m = round(lon0 (nl - 1) - lon1 nl) and lon = Dlon    *)
(* (mod(m, ni) + lon_later), less 360 when lon >= 180.                    *)
C14_LaterFrame ==
    AirbornePair =>
        LET g    == GlobalLat(cpr.c1, cpr.c2, TRUE)
            odd  == cpr.c2.F = 1
            rlat == IF odd THEN g.rlat1 ELSE g.rlat0
            nlc  == IF odd THEN cprNL(g.rlat1) - 1 ELSE cprNL(g.rlat0)
        IN  /\ cpr.ret.coord[1] = rlat
            /\ cpr.ret.coord[2] =
                  LonFrom(nlc, MaxOne(nlc), Frac17((IF odd THEN cpr.c1 ELSE cpr.c2).Lon),
                          Frac17((IF odd THEN cpr.c2 ELSE cpr.c1).Lon),
                          Frac17(cpr.c2.Lon))

(* C14 as amended: the message passed second is the later one; the        *)
(* position is rlat1 when it is the odd one and rlat0 when it is the even *)
(* one; nl = NL of that latitude in both cases, ni = max(nl - 1, 1) for   *)
(* the odd one and max(nl, 1) for the even one, Dlon = zone / ni, m =     *)
(* round(lon0 (nl - 1) - lon1 nl) and lon = Dlon (mod(m, ni) +            *)
(* lon_later), less 360 when lon >= 180.                                   *)
C14_LaterFrameAsCoded ==
    AirbornePair =>
        LET g    == GlobalLat(cpr.c1, cpr.c2, TRUE)
            odd  == cpr.c2.F = 1
            rlat == IF odd THEN g.rlat1 ELSE g.rlat0
            nlc  == cprNL(rlat)
        IN  /\ cpr.ret.coord[1] = rlat
            /\ cpr.ret.coord[2] =
                  LonFrom(nlc, MaxOne(IF odd THEN nlc - 1 ELSE nlc),
                          Frac17((IF odd THEN cpr.c1 ELSE cpr.c2).Lon),
                          Frac17((IF odd THEN cpr.c2 ELSE cpr.c1).Lon),
                          Frac17(cpr.c2.Lon))

(* An odd message passed second, with different longitudes in the two. *)
C14_Witness ==
    /\ AirbornePair
    /\ cpr.c2.F = 1
    /\ cpr.c1.Lon = 51372
    /\ cpr.c2.Lon = 65536
    /\ cpr.ret.coord[1] = GlobalLat(cpr.c1, cpr.c2, TRUE).rlat1
    /\ cprNL(cpr.ret.coord[1]) > 2

LocalCalled == cpr.op = "local"

InRange(v, lo, hi) == RLe(RInt(lo), v) /\ RLe(v, RInt(hi))

(* C15: DecodeLocal accepts a reference exactly when it has two elements, *)
(* the latitude in [-90, 90] and the longitude in [-180, 180]; any other  *)
(* length is rejected with "must provide [lat, lon] as argument", a       *)
(* latitude out of range with "latitude out of range (-90 to 90)", a      *)
(* longitude out of range with "longitude out of range (-180 to 180)",    *)
(* and a rejection returns no coordinates.                                 *)
C15_ReferenceValidation ==
    LocalCalled =>
        LET rp == cpr.rp
        IN  /\ cpr.ret.err # NoErr => cpr.ret.coord = <<>>
            /\ IF Len(rp) # 2
               THEN cpr.ret.err = newError("nil", "must provide [lat, lon] as argument")
               ELSE IF ~InRange(rp[1], -90, 90)
               THEN cpr.ret.err = newError("nil", "latitude out of range (-90 to 90)")
               ELSE IF ~InRange(rp[2], -180, 180)
               THEN cpr.ret.err = newError("nil", "longitude out of range (-180 to 180)")
               ELSE cpr.ret.err = NoErr /\ Len(cpr.ret.coord) = 2

(* What holds of C15: the same with the longitude accepted up to 190, as  *)
(* line 203 compares.                                                      *)
C15_ReferenceValidationTo190 ==
    LocalCalled =>
        LET rp == cpr.rp
        IN  /\ cpr.ret.err # NoErr => cpr.ret.coord = <<>>
            /\ IF Len(rp) # 2
               THEN cpr.ret.err = newError("nil", "must provide [lat, lon] as argument")
               ELSE IF ~InRange(rp[1], -90, 90)
               THEN cpr.ret.err = newError("nil", "latitude out of range (-90 to 90)")
               ELSE IF ~InRange(rp[2], -180, 190)
               THEN cpr.ret.err = newError("nil", "longitude out of range (-180 to 180)")
               ELSE cpr.ret.err = NoErr /\ Len(cpr.ret.coord) = 2

RFrac(q) == RSub(q, RInt(RFloor(q)))

(* |v - centre| <= half *)
NoFurther(v, centre, half) ==
    /\ RLe(RSub(centre, half), v)
    /\ RLe(v, RAdd(centre, half))

(* C16: for a valid reference and a report with F in {0, 1}, the position *)
(* DecodeLocal returns is the grid solution nearest the reference:        *)
(* |lat - lat_r| <= Dlat/2 with Dlat = zone/(60 - F), |lon - lon_r| <=    *)
(* Dlon/2 with Dlon = zone/max(NL(lat) - F, 1), and the fractional parts  *)
(* of lat/Dlat and lon/Dlon are Lat/2^17 and Lon/2^17.                    *)
C16_LocalNearest ==
    /\ LocalCalled
    /\ Len(cpr.rp) = 2
    /\ InRange(cpr.rp[1], -90, 90)
    /\ InRange(cpr.rp[2], -180, 180)
    => LET zone == IF cpr.isAirBorne THEN 360 ELSE 90
           lat  == cpr.ret.coord[1]
           lon  == cpr.ret.coord[2]
           Dlat == Rat(zone, 60 - cpr.c.F)
           Dlon == Rat(zone, MaxOne(cprNL(lat) - cpr.c.F))
       IN  /\ cpr.ret.err = NoErr
           /\ NoFurther(lat, cpr.rp[1], RMul(Dlat, Rat(1, 2)))
           /\ NoFurther(lon, cpr.rp[2], RMul(Dlon, Rat(1, 2)))
           /\ RFrac(RDiv(lat, Dlat)) = Frac17(cpr.c.Lat)
           /\ RFrac(RDiv(lon, Dlon)) = Frac17(cpr.c.Lon)

(* A surface odd report against a southern reference near the date line. *)
C16_Witness ==
    /\ LocalCalled
    /\ ~cpr.isAirBorne
    /\ cpr.c.F = 1
    /\ cpr.c.Lat = 92095
    /\ cpr.c.Lon = 39846
    /\ cpr.rp = <<RInt(-35), Rat(-3599, 20)>>
    /\ cpr.ret.err = NoErr
    /\ RLt(cpr.ret.coord[1], RInt(-34))
    /\ RLt(cpr.ret.coord[2], RInt(-179))

(* A surface pair decoded with a reference returned coordinates. *)
SurfaceWithReference ==
    /\ GlobalReturned
    /\ ~cpr.isAirBorne
    /\ cpr.referenceLat # Nil
    /\ cpr.referenceLon # Nil

(* v wrapped into (-180, 180], for v in [-540, 540] *)
WrapHalfOpen(v) ==
    IF RLt(RInt(180), v) THEN RSub(v, RInt(360))
    ELSE IF RLe(v, RInt(-180)) THEN RAdd(v, RInt(360))
    ELSE v

(* The angular distance of two longitudes in [-180, 180]. *)
Angular(a, b) ==
    LET d == RAbs(RSub(a, b))
    IN  IF RLt(RInt(180), d) THEN RSub(RInt(360), d) ELSE d

(* The unadjusted position of the pair held in cpr. *)
SurfaceBase ==
    LET g == GlobalLat(cpr.c1, cpr.c2, FALSE)
    IN  [lat |-> IF g.t0 THEN g.rlat0 ELSE g.rlat1,
         lon |-> GlobalLon(g.t0, g.lon0, g.lon1, g.rlat0, g.rlat1, FALSE).lon]

(* C17: for a surface pair decoded with a reference, the longitude        *)
(* returned is a candidate lon + k*90 (k in -4..4, wrapped into           *)
(* (-180, 180]) nearest the reference longitude in angular distance, at   *)
(* most 45 degrees from it modulo 360; the latitude returned is a         *)
(* candidate lat + k*90 within [-90, 90] nearest the reference latitude.  *)
C17_SurfaceNearest ==
    SurfaceWithReference =>
        LET lat == cpr.ret.coord[1]
            lon == cpr.ret.coord[2]
            lonCands == { WrapHalfOpen(RAdd(SurfaceBase.lon, RInt(90 * k))) : k \in -4..4 }
            latCands == { c \in { RAdd(SurfaceBase.lat, RInt(90 * k)) : k \in -2..2 } :
                            InRange(c, -90, 90) }
        IN  /\ lon \in lonCands
            /\ \A c \in lonCands :
                  RLe(Angular(lon, cpr.referenceLon), Angular(c, cpr.referenceLon))
            /\ RLe(Angular(lon, cpr.referenceLon), RInt(45))
            /\ lat \in latCands
            /\ \A c \in latCands :
                  RLe(RAbs(RSub(lat, cpr.referenceLat)), RAbs(RSub(c, cpr.referenceLat)))

====
